---- MODULE Spec2Model ----
(***************************************************************************)
(* clickward: the cluster topology (ClickwardMetadata), the per-node       *)
(* configuration files generated from it, and the Deployment operations    *)
(* that load the topology, mutate it, save it and (re)write configs and    *)
(* start/stop node processes.  Source: src/src/lib.rs.                     *)
(*                                                                         *)
(* The file system below the deployment directory and the set of running   *)
(* node processes are the shared state; every invocation of the tool is a  *)
(* process p with its own locals (inv[p]).  One step of the model is one   *)
(* file-system or process-control call of the code.                        *)
(***************************************************************************)
EXTENDS Integers, Sequences, FiniteSets, TLC

\* ---------------------------------------------------------------- bounds
\* Invocations of the tool per run.
MaxCalls == 4
\* Invocations per run when they may overlap.
MaxConcCalls == 3
\* generate_config is called with num_keepers, num_replicas in 0..these.
MaxGenKeepers == 2
MaxGenReplicas == 1
\* Ids of the topologies and views the functions are applied to.
MaxProbeId == 3
\* num_replicas of the deployment with server ids of two digits.
WideReplicas == 10

\* Invocations of the tool.  Spec runs them one at a time (SeqProcs).
Procs == {1, 2}
SeqProcs == {1}

\* ------------------------------------------------------------- constants
\* u16 arithmetic of the port fields (BasePorts, lib.rs:49-55).
U16 == 65536
\* Distance between two adjacent DEFAULT_BASE_PORTS.
PortSpacing == 1000

\* Variant of DEFAULT_BASE_PORTS: the raft ports start one above the keeper
\* ports.
BasePortsAdjacent ==
    [keeper |-> 20000,
     raft |-> 20001,
     clickhouse_tcp |-> 22000,
     clickhouse_http |-> 23000,
     clickhouse_interserver_http |-> 24000]

DEFAULT_BASE_PORTS ==
    [keeper |-> 20000,
     raft |-> 21000,
     clickhouse_tcp |-> 22000,
     clickhouse_http |-> 23000,
     clickhouse_interserver_http |-> 24000]

\* --------------------------------------------------------------- helpers
Min(S) == CHOOSE x \in S : \A y \in S : x <= y
Max(S) == CHOOSE x \in S : \A y \in S : y <= x
Range(s) == {s[i] : i \in DOMAIN s}

\* Iteration order of a BTreeSet<u64>: ascending.
RECURSIVE BTreeIter(_)
BTreeIter(S) ==
    IF S = {} THEN <<>> ELSE <<Min(S)>> \o BTreeIter(S \ {Min(S)})

\* `base + id as u16`: the id is truncated to 16 bits, the sum is a u16
\* (wrapping in a release build; a debug build panics when PortOverflows).
PortOverflows(base, id) == base + (id % U16) >= U16
Port(base, id) == (base + (id % U16)) % U16

\* ------------------------------------------------- ClickwardMetadata
EmptyMeta ==
    [keeper_ids |-> {}, max_keeper_id |-> 0, server_ids |-> {}, max_server_id |-> 0]

\* Variant of MetaNew: the high-water marks taken from `first()`.
MetaNewFromFirst(keeper_ids, replica_ids) ==
    [keeper_ids |-> keeper_ids,
     max_keeper_id |-> Min(keeper_ids),
     server_ids |-> replica_ids,
     max_server_id |-> Min(replica_ids)]

\* ClickwardMetadata::new: `last().unwrap()` panics on an empty set.
MetaNewPanics(keeper_ids, replica_ids) == keeper_ids = {} \/ replica_ids = {}
MetaNew(keeper_ids, replica_ids) ==
    [keeper_ids |-> keeper_ids,
     max_keeper_id |-> Max(keeper_ids),
     server_ids |-> replica_ids,
     max_server_id |-> Max(replica_ids)]

\* Variant of MetaAddKeeper: the high-water mark is not raised.
MetaAddKeeperKeepsMax(m) ==
    [m EXCEPT !.keeper_ids = @ \cup {m.max_keeper_id + 1}]

\* Variant of MetaAddKeeper: the new id is one past the largest live id.
MetaAddKeeperFromLive(m) ==
    LET id == IF m.keeper_ids = {} THEN 1 ELSE Max(m.keeper_ids) + 1 IN
    [m EXCEPT !.max_keeper_id = id, !.keeper_ids = @ \cup {id}]

\* Variant of MetaAddServer: the new id is inserted into keeper_ids.
MetaAddServerIntoKeepers(m) ==
    [m EXCEPT !.max_server_id = @ + 1,
              !.keeper_ids = @ \cup {m.max_server_id + 1}]

\* add_keeper / add_server: the struct after the call; the id returned is
\* the new high-water mark.
MetaAddKeeper(m) ==
    [m EXCEPT !.max_keeper_id = @ + 1,
              !.keeper_ids = @ \cup {m.max_keeper_id + 1}]
MetaAddServer(m) ==
    [m EXCEPT !.max_server_id = @ + 1,
              !.server_ids = @ \cup {m.max_server_id + 1}]

\* Variant of MetaRemoveKeeper: the high-water mark follows the live set.
MetaRemoveKeeperLowersMax(m, id) ==
    LET left == m.keeper_ids \ {id} IN
    [ok |-> id \in m.keeper_ids,
     meta |-> [m EXCEPT !.keeper_ids = left,
                        !.max_keeper_id = IF left = {} THEN 0 ELSE Max(left)]]

\* Variants of MetaRemoveKeeper / MetaRemoveServer: a missing id is ignored.
MetaRemoveKeeperIgnoresMissing(m, id) ==
    [ok |-> TRUE,
     meta |-> [m EXCEPT !.keeper_ids = @ \ {id}]]
MetaRemoveServerIgnoresMissing(m, id) ==
    [ok |-> TRUE,
     meta |-> [m EXCEPT !.server_ids = @ \ {id}]]

\* remove_keeper / remove_server: BTreeSet::remove returns whether the id
\* was present; the call bails when it was not.
MetaRemoveKeeper(m, id) ==
    [ok |-> id \in m.keeper_ids,
     meta |-> [m EXCEPT !.keeper_ids = @ \ {id}]]
MetaRemoveServer(m, id) ==
    [ok |-> id \in m.server_ids,
     meta |-> [m EXCEPT !.server_ids = @ \ {id}]]

\* save / load: serde_json of the struct; a BTreeSet is a JSON array in
\* ascending order, read back into a set.
ToJson(m) ==
    [keeper_ids |-> BTreeIter(m.keeper_ids),
     max_keeper_id |-> m.max_keeper_id,
     server_ids |-> BTreeIter(m.server_ids),
     max_server_id |-> m.max_server_id]
\* Variant of FromJson: the high-water marks are taken from the sets read.
FromJsonMaxFromIds(j) ==
    [keeper_ids |-> Range(j.keeper_ids),
     max_keeper_id |-> IF j.keeper_ids = <<>> THEN 0 ELSE Max(Range(j.keeper_ids)),
     server_ids |-> Range(j.server_ids),
     max_server_id |-> IF j.server_ids = <<>> THEN 0 ELSE Max(Range(j.server_ids))]
FromJson(j) ==
    [keeper_ids |-> Range(j.keeper_ids),
     max_keeper_id |-> j.max_keeper_id,
     server_ids |-> Range(j.server_ids),
     max_server_id |-> j.max_server_id]

\* ------------------------------------------------- generated configs
\* Variant of KeeperConfigOf: the raft list names the other keepers only.
KeeperConfigOfPeersOnly(this_keeper, keeper_ids) ==
    LET ids == BTreeIter(keeper_ids \ {this_keeper}) IN
    [server_id |-> this_keeper,
     tcp_port |-> Port(DEFAULT_BASE_PORTS.keeper, this_keeper),
     raft_servers |->
        [i \in DOMAIN ids |->
            [id |-> ids[i],
             hostname |-> "::1",
             port |-> Port(DEFAULT_BASE_PORTS.raft, ids[i])]]]

\* KeeperConfig written by generate_keeper_config(this_keeper, keeper_ids).
KeeperConfigOf(this_keeper, keeper_ids) ==
    LET ids == BTreeIter(keeper_ids) IN
    [server_id |-> this_keeper,
     tcp_port |-> Port(DEFAULT_BASE_PORTS.keeper, this_keeper),
     raft_servers |->
        [i \in DOMAIN ids |->
            [id |-> ids[i],
             hostname |-> "::1",
             port |-> Port(DEFAULT_BASE_PORTS.raft, ids[i])]]]

\* Variant of ReplicaConfigOf: the keeper list is built from replica_ids.
ReplicaConfigOfKeepersFromReplicas(id, keeper_ids, replica_ids) ==
    LET rs == BTreeIter(replica_ids) IN
    [shard |-> 1,
     replica |-> id,
     http_port |-> Port(DEFAULT_BASE_PORTS.clickhouse_http, id),
     tcp_port |-> Port(DEFAULT_BASE_PORTS.clickhouse_tcp, id),
     interserver_http_port |->
        Port(DEFAULT_BASE_PORTS.clickhouse_interserver_http, id),
     replicas |->
        [i \in DOMAIN rs |->
            [host |-> "::1",
             port |-> Port(DEFAULT_BASE_PORTS.clickhouse_tcp, rs[i])]],
     keepers |->
        [i \in DOMAIN rs |->
            [host |-> "[::1]",
             port |-> Port(DEFAULT_BASE_PORTS.keeper, rs[i])]]]

\* ReplicaConfig written by generate_clickhouse_config for replica `id`.
ReplicaConfigOf(id, keeper_ids, replica_ids) ==
    LET rs == BTreeIter(replica_ids)
        ks == BTreeIter(keeper_ids) IN
    [shard |-> 1,
     replica |-> id,
     http_port |-> Port(DEFAULT_BASE_PORTS.clickhouse_http, id),
     tcp_port |-> Port(DEFAULT_BASE_PORTS.clickhouse_tcp, id),
     interserver_http_port |->
        Port(DEFAULT_BASE_PORTS.clickhouse_interserver_http, id),
     replicas |->
        [i \in DOMAIN rs |->
            [host |-> "::1",
             port |-> Port(DEFAULT_BASE_PORTS.clickhouse_tcp, rs[i])]],
     keepers |->
        [i \in DOMAIN ks |->
            [host |-> "[::1]",
             port |-> Port(DEFAULT_BASE_PORTS.keeper, ks[i])]]]

\* create_dir_all, File::create and write_all of a config: the file of node
\* id is replaced by cfg whatever it held, no other file is touched.
WriteConfigKeepsExisting(files, id, cfg) ==
    IF id \in DOMAIN files THEN files ELSE (id :> cfg) @@ files
WriteConfig(files, id, cfg) == (id :> cfg) @@ files

\* What a written config says: the ids a port list stands for.
RaftIds(cfg) == {cfg.raft_servers[i].id : i \in DOMAIN cfg.raft_servers}
RaftPorts(cfg) == {cfg.raft_servers[i].port : i \in DOMAIN cfg.raft_servers}
ReplicaPorts(cfg) == {cfg.replicas[i].port : i \in DOMAIN cfg.replicas}
KeeperPorts(cfg) == {cfg.keepers[i].port : i \in DOMAIN cfg.keepers}

\* ------------------------------------------------------------------ state
VARIABLES
    dirExists,      \* <path>/deployment exists (create_dir_all of generate_config)
    metaFile,       \* clickward-metadata.json: <<>> when absent, else <<json>>
                    \* or <<TornJson>>
    keeperCfg,      \* keeper-<id>/keeper-config.xml, for the ids whose file exists
    serverCfg,      \* clickhouse-<id>/clickhouse-config.xml, likewise
    keepersUp,      \* keeper processes running (their keeper.pid exists)
    serversUp,      \* clickhouse server processes running
    inv,            \* per invocation: operation, position, locals, outcome
    everKeeperIds,  \* history: every id that has been in the saved keeper_ids
    everServerIds,  \* history: every id that has been in the saved server_ids
    allOk,          \* history: no add/remove that loaded the topology has
                    \* ended in an error or a panic
    cutShort,       \* history: the add/remove operations that saved the
                    \* topology and then ended in an error or a panic
    faulted,        \* the environment has failed a call (see Fault)
    calls,          \* invocations of the tool so far
    probe           \* a function of the code applied on its own: its kind,
                    \* its arguments and, once applied, <<its result>>

vars ==
    <<dirExists, metaFile, keeperCfg, serverCfg, keepersUp, serversUp, inv,
      everKeeperIds, everServerIds, allOk, cutShort, faulted,
      calls, probe>>

fsVars == <<dirExists, metaFile, keeperCfg, serverCfg>>
procVars == <<keepersUp, serversUp>>
histIds == <<everKeeperIds, everServerIds>>

\* clickward-metadata.json after a std::fs::write that failed once the file
\* was opened and truncated: not the JSON of a ClickwardMetadata.
TornJson == [torn |-> TRUE]

\* ClickwardMetadata::load succeeds: the file is there and parses.
Readable == metaFile # <<>> /\ metaFile[1] # TornJson

\* Variants of the statement orders below.
AddKeeperPhasesPeersFirst ==
    <<"save", "keeper_config_new", "keeper_configs", "start_keeper",
      "clickhouse_config">>
AddKeeperPhasesNoPeers ==
    <<"save", "keeper_config_new", "start_keeper", "clickhouse_config">>
AddServerPhasesSaveLast == <<"clickhouse_config", "start_server", "save">>
AddServerPhasesStartFirst == <<"save", "start_server", "clickhouse_config">>
RemoveServerPhasesStopFirst == <<"save", "stop_server", "clickhouse_config">>
RemoveKeeperPhasesStopFirst ==
    <<"save", "stop_keeper", "keeper_configs", "clickhouse_config">>
RemoveKeeperPhasesNoServers == <<"save", "keeper_configs", "stop_keeper">>
RemoveKeeperPhasesSaveAfterStop ==
    <<"keeper_configs", "stop_keeper", "save", "clickhouse_config">>

\* The statements of each operation after its first one (the load, the
\* argument ranges, the read_dir), in program order.
AddKeeperPhases ==
    <<"save", "keeper_config_new", "start_keeper", "keeper_configs",
      "clickhouse_config">>
AddServerPhases == <<"save", "clickhouse_config", "start_server">>
RemoveKeeperPhases ==
    <<"save", "keeper_configs", "stop_keeper", "clickhouse_config">>
RemoveServerPhases == <<"save", "clickhouse_config", "stop_server">>
\* Variant of GenerateConfigPhases: the ranges are saved before
\* ClickwardMetadata::new is called.
GenerateConfigPhasesSaveFirst ==
    <<"clickhouse_config", "keeper_configs", "save", "meta_new">>
GenerateConfigPhases ==
    <<"clickhouse_config", "keeper_configs", "meta_new", "save">>
DeployPhases == <<"deploy_keepers", "deploy_servers">>

Phases(op) ==
    CASE op = "add_keeper" -> AddKeeperPhases
      [] op = "add_server" -> AddServerPhases
      [] op = "remove_keeper" -> RemoveKeeperPhases
      [] op = "remove_server" -> RemoveServerPhases
      [] op = "generate_config" -> GenerateConfigPhases
      [] op = "deploy" -> DeployPhases
      [] OTHER -> <<>>

Reconfigs == {"add_keeper", "add_server", "remove_keeper", "remove_server"}

\* Locals of an invocation that has not run anything yet.
Fresh ==
    [op |-> "none", pc |-> 0, args |-> <<>>, id |-> 0,
     loaded |-> EmptyMeta, meta |-> EmptyMeta,
     todo |-> {}, dirs |-> [keepers |-> {}, servers |-> {}],
     result |-> "none", at |-> "none", log |-> <<>>]

Ev(what, id) == [ev |-> what, id |-> id]

\* The ids a `for` loop of the operation iterates over.
LoopPhases ==
    {"keeper_configs", "clickhouse_config", "deploy_keepers", "deploy_servers"}
LoopIds(r, ph) ==
    CASE ph = "keeper_configs" ->
            IF r.op = "add_keeper" THEN r.meta.keeper_ids \ {r.id}
            ELSE r.meta.keeper_ids
      [] ph = "clickhouse_config" -> r.meta.server_ids
      [] ph = "deploy_keepers" -> r.dirs.keepers
      [] ph = "deploy_servers" -> r.dirs.servers
      [] OTHER -> {}

\* Control reaches statement i of the operation: a loop over no ids is
\* passed, and past the last statement the operation returns Ok(()).
RECURSIVE Enter(_, _)
Enter(r, i) ==
    IF i > Len(Phases(r.op))
    THEN [r EXCEPT !.pc = 0, !.result = "ok", !.todo = {}]
    ELSE LET ph == Phases(r.op)[i] IN
         IF ph \in LoopPhases /\ LoopIds(r, ph) = {}
         THEN Enter(r, i + 1)
         ELSE [r EXCEPT !.pc = i, !.todo = LoopIds(r, ph)]

\* The operation ends early: `?` on an Err ("err") or a panic ("panic"), at
\* the statement it was at (r.at; "load" for its first statement).
Abort(r, res) ==
    [r EXCEPT !.pc = 0, !.result = res, !.todo = {},
              !.at = IF r.pc > 0 THEN Phases(r.op)[r.pc] ELSE "load"]

\* One iteration of a loop over r.todo is done.
LoopDone(r, id) ==
    IF r.todo \ {id} = {} THEN Enter(r, r.pc + 1)
    ELSE [r EXCEPT !.todo = @ \ {id}]

Idle(p) == inv[p].pc = 0 /\ inv[p].result = "none"
Returned(p) == inv[p].pc = 0 /\ inv[p].result # "none"
Quiescent == \A q \in Procs : Idle(q)
At(p, ph) == inv[p].pc > 0 /\ Phases(inv[p].op)[inv[p].pc] = ph
Logged(r, e) == [r EXCEPT !.log = Append(@, e)]

\* inv, and the history of outcomes, after invocation p's locals become r.
Moves(p, r) ==
    /\ inv' = [inv EXCEPT ![p] = r]
    /\ UNCHANGED probe
    /\ allOk' = (allOk /\ ~(r.op \in Reconfigs /\ r.log # <<>>
                            /\ r.result \in {"err", "panic"}))
    /\ cutShort' =
            IF /\ r.op \in Reconfigs
               /\ r.result \in {"err", "panic"}
               /\ Ev("save", 0) \in Range(r.log)
            THEN cutShort \cup {[op |-> r.op, id |-> r.id]}
            ELSE cutShort

\* A step of the code itself.
Becomes(p, r) == Moves(p, r) /\ UNCHANGED faulted

\* One more invocation of the tool.
Called == calls < MaxCalls /\ calls' = calls + 1

\* The ids a removal is asked for: every id allocated so far and one that
\* never was.
RemovableKeepers ==
    IF Readable THEN 1..(metaFile[1].max_keeper_id + 1) ELSE {}
RemovableServers ==
    IF Readable THEN 1..(metaFile[1].max_server_id + 1) ELSE {}

\* The environment fails the call of this step (a write that fails, a spawn
\* that fails): the operation ends with res.  A run has at most one such
\* failure; the failures that follow from the state (no metadata file, no
\* pidfile, an id that is not a member) are not limited.
Fault(p, res) ==
    /\ ~faulted
    /\ faulted' = TRUE
    /\ Moves(p, Abort(inv[p], res))

NoProbe == [kind |-> "none", in |-> <<>>, out |-> <<>>]

\* Nothing generated, nothing running, no invocation yet.
Fs0 ==
    /\ dirExists = FALSE
    /\ metaFile = <<>>
    /\ keeperCfg = <<>>
    /\ serverCfg = <<>>
    /\ keepersUp = {}
    /\ serversUp = {}
    /\ inv = [p \in Procs |-> Fresh]
    /\ everKeeperIds = {}
    /\ everServerIds = {}
    /\ allOk = TRUE
    /\ cutShort = {}
    /\ faulted = FALSE
    /\ calls = 0

Init == Fs0 /\ probe = NoProbe

\* ------------------------------------------------ first statements
\* generate_config(num_keepers, num_replicas): create_dir_all and the two
\* id ranges.  The ranges are kept in inv[p].meta, whose high-water marks
\* are set by ClickwardMetadata::new ("meta_new").  A deployment is
\* generated once: the topology of the claims is created by one genesis.
GenerateConfigCall(p, num_keepers, num_replicas) ==
    /\ Idle(p)
    /\ Called
    /\ metaFile = <<>>
    /\ dirExists' = TRUE
    /\ Becomes(p, Enter([Fresh EXCEPT
            !.op = "generate_config",
            !.args = <<num_keepers, num_replicas>>,
            !.meta = [EmptyMeta EXCEPT !.keeper_ids = 1..num_keepers,
                                       !.server_ids = 1..num_replicas]], 1))
    /\ UNCHANGED <<metaFile, keeperCfg, serverCfg, procVars, histIds>>

\* deploy: read_dir of the deployment directory, kept as the names found.
DeployCall(p) ==
    /\ Idle(p)
    /\ Called
    /\ IF dirExists
       THEN Becomes(p, Enter([Fresh EXCEPT
                !.op = "deploy",
                !.dirs = [keepers |-> DOMAIN keeperCfg,
                          servers |-> DOMAIN serverCfg]], 1))
       ELSE Becomes(p, Abort([Fresh EXCEPT !.op = "deploy"], "err"))
    /\ UNCHANGED <<fsVars, procVars, histIds>>

\* ClickwardMetadata::load fails when the file cannot be read or parsed.
LoadFails(p, op, id) ==
    /\ Idle(p)
    /\ Called
    /\ ~Readable
    /\ Becomes(p, Abort([Fresh EXCEPT !.op = op, !.id = id], "err"))
    /\ UNCHANGED <<fsVars, procVars, histIds>>

\* The locals after `load` and the in-memory mutation returned struct m.
Loaded(op, id, before, m) ==
    [Fresh EXCEPT !.op = op, !.id = id, !.loaded = before, !.meta = m,
                  !.log = <<Ev("load", 0)>>]

\* add_keeper: load, meta.add_keeper().
AddKeeperLoad(p) ==
    /\ Idle(p)
    /\ Called
    /\ Readable
    /\ LET before == FromJson(metaFile[1])
           m == MetaAddKeeper(before) IN
       /\ Becomes(p, Enter(Loaded("add_keeper", m.max_keeper_id, before, m), 1))
    /\ UNCHANGED <<fsVars, procVars, histIds>>

\* add_server: load, meta.add_server().
AddServerLoad(p) ==
    /\ Idle(p)
    /\ Called
    /\ Readable
    /\ LET before == FromJson(metaFile[1])
           m == MetaAddServer(before) IN
       /\ Becomes(p, Enter(Loaded("add_server", m.max_server_id, before, m), 1))
    /\ UNCHANGED <<fsVars, procVars, histIds>>

\* remove_keeper(id): load, meta.remove_keeper(id)?.
RemoveKeeperLoad(p, id) ==
    /\ Idle(p)
    /\ Called
    /\ Readable
    /\ LET before == FromJson(metaFile[1])
           r == MetaRemoveKeeper(before, id)
           l == Loaded("remove_keeper", id, before, r.meta) IN
       Becomes(p, IF r.ok THEN Enter(l, 1) ELSE Abort(l, "err"))
    /\ UNCHANGED <<fsVars, procVars, histIds>>

\* remove_server(id): load, meta.remove_server(id)?.
RemoveServerLoad(p, id) ==
    /\ Idle(p)
    /\ Called
    /\ Readable
    /\ LET before == FromJson(metaFile[1])
           r == MetaRemoveServer(before, id)
           l == Loaded("remove_server", id, before, r.meta) IN
       Becomes(p, IF r.ok THEN Enter(l, 1) ELSE Abort(l, "err"))
    /\ UNCHANGED <<fsVars, procVars, histIds>>

\* ------------------------------------------------------ later statements
\* ClickwardMetadata::new(keeper_ids, replica_ids) in generate_config.
MetaNewStep(p) ==
    /\ At(p, "meta_new")
    /\ UNCHANGED calls
    /\ LET r == inv[p] IN
       IF MetaNewPanics(r.meta.keeper_ids, r.meta.server_ids)
       THEN Becomes(p, Abort(r, "panic"))
       ELSE Becomes(p, Enter([r EXCEPT
                !.meta = MetaNew(r.meta.keeper_ids, r.meta.server_ids)],
                r.pc + 1))
    /\ UNCHANGED <<fsVars, procVars, histIds>>

\* Variant of Save: the struct as loaded is written, not the mutated one.
SaveAsLoaded(p) ==
    /\ At(p, "save")
    /\ UNCHANGED calls
    /\ LET r == inv[p] IN
       /\ metaFile' = <<ToJson(r.loaded)>>
       /\ everKeeperIds' = everKeeperIds \cup r.loaded.keeper_ids
       /\ everServerIds' = everServerIds \cup r.loaded.server_ids
       /\ Becomes(p, Enter(Logged(r, Ev("save", 0)), r.pc + 1))
    /\ UNCHANGED <<dirExists, keeperCfg, serverCfg, procVars>>

\* meta.save(path)?: the file is replaced, or std::fs::write fails, before
\* it has opened the file or after it has truncated it.
Save(p) ==
    /\ At(p, "save")
    /\ UNCHANGED calls
    /\ LET r == inv[p] IN
       \/ /\ metaFile' = <<ToJson(r.meta)>>
          /\ everKeeperIds' = everKeeperIds \cup r.meta.keeper_ids
          /\ everServerIds' = everServerIds \cup r.meta.server_ids
          /\ Becomes(p, Enter(Logged(r, Ev("save", 0)), r.pc + 1))
       \/ /\ Fault(p, "err")
          /\ UNCHANGED <<metaFile, histIds>>
       \/ /\ Fault(p, "err")
          /\ metaFile' = <<TornJson>>
          /\ UNCHANGED histIds
    /\ UNCHANGED <<dirExists, keeperCfg, serverCfg, procVars>>

\* generate_keeper_config(new_id, keeper_ids)? of add_keeper.
GenerateKeeperConfigNew(p) ==
    /\ At(p, "keeper_config_new")
    /\ UNCHANGED calls
    /\ LET r == inv[p] IN
       \/ /\ keeperCfg' = WriteConfig(keeperCfg, r.id,
                                      KeeperConfigOf(r.id, r.meta.keeper_ids))
          /\ Becomes(p, Enter(Logged(r, Ev("keeper_config", r.id)), r.pc + 1))
       \/ /\ Fault(p, "err")
          /\ UNCHANGED keeperCfg
    /\ UNCHANGED <<dirExists, metaFile, serverCfg, procVars, histIds>>

\* One iteration of `for id in ... { generate_keeper_config(id, keeper_ids)? }`.
GenerateKeeperConfigs(p) ==
    /\ At(p, "keeper_configs")
    /\ UNCHANGED calls
    /\ LET r == inv[p]
           id == Min(r.todo) IN
       \/ /\ keeperCfg' = WriteConfig(keeperCfg, id,
                                      KeeperConfigOf(id, r.meta.keeper_ids))
          /\ Becomes(p, LoopDone(Logged(r, Ev("keeper_config", id)), id))
       \/ /\ Fault(p, "err")
          /\ UNCHANGED keeperCfg
    /\ UNCHANGED <<dirExists, metaFile, serverCfg, procVars, histIds>>

\* Variant of GenerateClickhouseConfig: the keeper list is the one loaded.
GenerateClickhouseConfigAsLoaded(p) ==
    /\ At(p, "clickhouse_config")
    /\ UNCHANGED calls
    /\ LET r == inv[p]
           id == Min(r.todo) IN
       /\ serverCfg' =
                WriteConfig(serverCfg, id,
                    ReplicaConfigOf(id, r.loaded.keeper_ids, r.meta.server_ids))
       /\ Becomes(p, LoopDone(Logged(r, Ev("clickhouse_config", id)), id))
    /\ UNCHANGED <<dirExists, metaFile, keeperCfg, procVars, histIds>>

\* One iteration of the `for id in replica_ids` of generate_clickhouse_config.
GenerateClickhouseConfig(p) ==
    /\ At(p, "clickhouse_config")
    /\ UNCHANGED calls
    /\ LET r == inv[p]
           id == Min(r.todo) IN
       \/ /\ serverCfg' =
                WriteConfig(serverCfg, id,
                    ReplicaConfigOf(id, r.meta.keeper_ids, r.meta.server_ids))
          /\ Becomes(p, LoopDone(Logged(r, Ev("clickhouse_config", id)), id))
       \/ /\ Fault(p, "err")
          /\ UNCHANGED serverCfg
    /\ UNCHANGED <<dirExists, metaFile, keeperCfg, procVars, histIds>>

\* start_keeper(new_id): spawn, `expect` panics when the spawn fails.
StartKeeper(p) ==
    /\ At(p, "start_keeper")
    /\ UNCHANGED calls
    /\ LET r == inv[p] IN
       \/ /\ keepersUp' = keepersUp \cup {r.id}
          /\ Becomes(p, Enter(Logged(r, Ev("start_keeper", r.id)), r.pc + 1))
       \/ /\ Fault(p, "panic")
          /\ UNCHANGED keepersUp
    /\ UNCHANGED <<fsVars, serversUp, histIds>>

\* start_server(new_id).
StartServer(p) ==
    /\ At(p, "start_server")
    /\ UNCHANGED calls
    /\ LET r == inv[p] IN
       \/ /\ serversUp' = serversUp \cup {r.id}
          /\ Becomes(p, Enter(Logged(r, Ev("start_server", r.id)), r.pc + 1))
       \/ /\ Fault(p, "panic")
          /\ UNCHANGED serversUp
    /\ UNCHANGED <<fsVars, keepersUp, histIds>>

\* stop_keeper(id)?: reading keeper.pid fails when the keeper is not
\* running; otherwise kill -9 is spawned (`expect` panics when the spawn
\* fails) and the pidfile is removed (`?`: when remove_file fails the
\* keeper is killed and the call returns the error).
StopKeeper(p) ==
    /\ At(p, "stop_keeper")
    /\ UNCHANGED calls
    /\ LET r == inv[p] IN
       IF r.id \in keepersUp
       THEN \/ /\ keepersUp' = keepersUp \ {r.id}
               /\ Becomes(p, Enter(Logged(r, Ev("stop_keeper", r.id)), r.pc + 1))
            \/ /\ Fault(p, "panic")
               /\ UNCHANGED keepersUp
            \/ /\ Fault(p, "err")
               /\ keepersUp' = keepersUp \ {r.id}
       ELSE /\ Becomes(p, Abort(r, "err"))
            /\ UNCHANGED keepersUp
    /\ UNCHANGED <<fsVars, serversUp, histIds>>

\* The decimal digits of a are the first digits of b.
RECURSIVE DecimalPrefix(_, _)
DecimalPrefix(a, b) == b = a \/ (b >= 10 /\ DecimalPrefix(a, b \div 10))

\* pkill -f clickhouse-<id> signals every process whose command line
\* contains the pattern.  Server j runs as
\* `clickhouse server -C <path>/clickhouse-<j>/clickhouse-config.xml`
\* (start_server), a keeper as `clickhouse keeper -C <path>/keeper-<j>/...`.
PkillMatches(id, j) == DecimalPrefix(id, j)

\* pkill exits with status 1 when no process matches.
PkillMatchesNone(id) == \A j \in serversUp : ~PkillMatches(id, j)

\* stop_server(id)?: pkill -f clickhouse-<id> is spawned (`expect` panics
\* when the spawn fails); its exit status is not read, so the call returns
\* Ok(()) also when pkill matched no process.
StopServer(p) ==
    /\ At(p, "stop_server")
    /\ UNCHANGED calls
    /\ LET r == inv[p] IN
       \/ /\ serversUp' = {j \in serversUp : ~PkillMatches(r.id, j)}
          /\ Becomes(p, Enter(Logged(r, Ev("stop_server", r.id)), r.pc + 1))
       \/ /\ Fault(p, "panic")
          /\ UNCHANGED serversUp
    /\ UNCHANGED <<fsVars, keepersUp, histIds>>

\* deploy: one iteration of `for dir in keeper_dirs`, in read_dir's order,
\* which is any order.  The keepers started so far are dirs.keepers \ todo.
DeployKeepers(p) ==
    /\ At(p, "deploy_keepers")
    /\ UNCHANGED calls
    /\ LET r == inv[p] IN
       \/ \E id \in r.todo :
            /\ keepersUp' = keepersUp \cup {id}
            /\ Becomes(p, LoopDone(r, id))
       \/ /\ Fault(p, "panic")
          /\ UNCHANGED keepersUp
    /\ UNCHANGED <<fsVars, serversUp, histIds>>

\* deploy: one iteration of `for dir in clickhouse_dirs`.
DeployServers(p) ==
    /\ At(p, "deploy_servers")
    /\ UNCHANGED calls
    /\ LET r == inv[p] IN
       \/ \E id \in r.todo :
            /\ serversUp' = serversUp \cup {id}
            /\ Becomes(p, LoopDone(r, id))
       \/ /\ Fault(p, "panic")
          /\ UNCHANGED serversUp
    /\ UNCHANGED <<fsVars, keepersUp, histIds>>

\* The invocation's process exits; its locals are gone.
Return(p) ==
    /\ Returned(p)
    /\ inv' = [inv EXCEPT ![p] = Fresh]
    /\ UNCHANGED <<fsVars, procVars, histIds, allOk, cutShort, faulted, calls,
                   probe>>

\* --------------------------------------------------------- specification
\* One invocation at a time: the tool is run to its end before it is run
\* again.
Next ==
    \E p \in SeqProcs :
        \/ \E nk \in 0..MaxGenKeepers, nr \in 0..MaxGenReplicas :
                Quiescent /\ GenerateConfigCall(p, nk, nr)
        \/ Quiescent /\ DeployCall(p)
        \/ \E op \in Reconfigs : Quiescent /\ LoadFails(p, op, 0)
        \/ Quiescent /\ AddKeeperLoad(p)
        \/ Quiescent /\ AddServerLoad(p)
        \/ \E id \in RemovableKeepers : Quiescent /\ RemoveKeeperLoad(p, id)
        \/ \E id \in RemovableServers : Quiescent /\ RemoveServerLoad(p, id)
        \/ Return(p)
        \/ MetaNewStep(p)
        \/ Save(p)
        \/ GenerateKeeperConfigNew(p)
        \/ GenerateKeeperConfigs(p)
        \/ GenerateClickhouseConfig(p)
        \/ StartKeeper(p)
        \/ StartServer(p)
        \/ StopKeeper(p)
        \/ StopServer(p)
        \/ DeployKeepers(p)
        \/ DeployServers(p)

Spec == Init /\ [][Next]_vars

\* Invocations of the tool by several callers at once: nothing in the code
\* (no lock file, no check of what was loaded) keeps a second invocation
\* from running between two statements of the first.  The environment does
\* not fail a call here: the failures left are those that follow from the
\* state.
ConcCalled == calls < MaxConcCalls
NoFault == faulted' = FALSE
ConcNext ==
    \E p \in Procs :
        \/ \E nk \in 0..MaxGenKeepers, nr \in 0..MaxGenReplicas :
                Quiescent /\ ConcCalled /\ GenerateConfigCall(p, nk, nr)
        \/ ConcCalled /\ AddKeeperLoad(p)
        \/ ConcCalled /\ AddServerLoad(p)
        \/ \E id \in RemovableKeepers : ConcCalled /\ RemoveKeeperLoad(p, id)
        \/ \E id \in RemovableServers : ConcCalled /\ RemoveServerLoad(p, id)
        \/ Return(p)
        \/ MetaNewStep(p)
        \/ Save(p) /\ NoFault
        \/ GenerateKeeperConfigNew(p) /\ NoFault
        \/ GenerateKeeperConfigs(p) /\ NoFault
        \/ GenerateClickhouseConfig(p) /\ NoFault
        \/ StartKeeper(p) /\ NoFault
        \/ StartServer(p) /\ NoFault
        \/ StopKeeper(p) /\ NoFault
        \/ StopServer(p) /\ NoFault

ConcSpec == Init /\ [][ConcNext]_vars

\* A deployment with server ids of two digits: the state after
\* generate_config(1, WideReplicas) and deploy have both returned Ok, then
\* add/remove operations one at a time.  The environment does not fail a
\* call here.
WideInit ==
    LET K == 1..1
        S == 1..WideReplicas IN
    /\ dirExists = TRUE
    /\ metaFile = <<ToJson(MetaNew(K, S))>>
    /\ keeperCfg = [k \in K |-> KeeperConfigOf(k, K)]
    /\ serverCfg = [s \in S |-> ReplicaConfigOf(s, K, S)]
    /\ keepersUp = K
    /\ serversUp = S
    /\ inv = [p \in Procs |-> Fresh]
    /\ everKeeperIds = K
    /\ everServerIds = S
    /\ allOk = TRUE
    /\ cutShort = {}
    /\ faulted = FALSE
    /\ calls = 2
    /\ probe = NoProbe

WideNext ==
    \E p \in SeqProcs :
        \/ Quiescent /\ AddKeeperLoad(p)
        \/ Quiescent /\ AddServerLoad(p)
        \/ \E id \in RemovableKeepers : Quiescent /\ RemoveKeeperLoad(p, id)
        \/ \E id \in RemovableServers : Quiescent /\ RemoveServerLoad(p, id)
        \/ Return(p)
        \/ Save(p) /\ NoFault
        \/ GenerateKeeperConfigNew(p) /\ NoFault
        \/ GenerateKeeperConfigs(p) /\ NoFault
        \/ GenerateClickhouseConfig(p) /\ NoFault
        \/ StartKeeper(p) /\ NoFault
        \/ StartServer(p) /\ NoFault
        \/ StopKeeper(p) /\ NoFault
        \/ StopServer(p) /\ NoFault

WideSpec == WideInit /\ [][WideNext]_vars

\* ------------------------------------------- the functions on their own
\* The port arithmetic, save followed by load, and the keeper view, each
\* applied once to arguments drawn from the sets below.
ProbeIds == 1..MaxProbeId
\* Node ids for the port arithmetic: the ids below the spacing of the base
\* ports, and ids around the limits of the u16 arithmetic.
PortIds ==
    (1..PortSpacing) \cup {U16 - 24001, U16 - 24000, U16 - 20001, U16 - 20000,
                           U16 - 1, U16, U16 + 7}
Services == DOMAIN DEFAULT_BASE_PORTS
Metas ==
    [keeper_ids : SUBSET ProbeIds, max_keeper_id : 0..MaxProbeId,
     server_ids : SUBSET ProbeIds, max_server_id : 0..MaxProbeId]

\* Topologies for the allocation: high-water marks that are small or next
\* to the spacing of the base ports, with node 1 and the newest node live.
AllocMarks == (1..MaxProbeId) \cup {PortSpacing - 2, PortSpacing - 1, PortSpacing}
AllocMetas ==
    UNION {{[keeper_ids |-> K, max_keeper_id |-> mk,
             server_ids |-> S, max_server_id |-> ms] :
                K \in {{1}, {1, mk}}, S \in {{1}, {1, ms}}} :
           mk \in AllocMarks, ms \in AllocMarks}

FnInit ==
    /\ Fs0
    /\ \/ \E s \in Services, id \in PortIds :
            probe = [kind |-> "port", in |-> <<s, id>>, out |-> <<>>]
       \/ \E t \in Metas :
            probe = [kind |-> "save_load", in |-> <<t>>, out |-> <<>>]
       \/ \E k \in ProbeIds, K \in SUBSET ProbeIds :
            probe = [kind |-> "keeper_view", in |-> <<k, K>>, out |-> <<>>]
       \/ \E t \in AllocMetas, op \in {"add_keeper", "add_server"} :
            probe = [kind |-> op, in |-> <<t>>, out |-> <<>>]

Applied(out) ==
    /\ probe.out = <<>>
    /\ probe' = [probe EXCEPT !.out = <<out>>]
    /\ UNCHANGED <<fsVars, procVars, inv, histIds, allOk, cutShort, faulted,
                   calls>>

\* `base_ports.<service> + id as u16`: the sum wraps in a release build and
\* panics in a debug build when it does not fit a u16.
PortOf(p) ==
    /\ p.kind = "port"
    /\ LET base == DEFAULT_BASE_PORTS[p.in[1]]
           id == p.in[2] IN
       \/ Applied([panic |-> FALSE, port |-> Port(base, id)])
       \/ PortOverflows(base, id) /\ Applied([panic |-> TRUE, port |-> 0])

\* meta.save(path) followed by ClickwardMetadata::load(path).
SaveLoad(p) ==
    /\ p.kind = "save_load"
    /\ Applied(FromJson(ToJson(p.in[1])))

\* The KeeperConfig of generate_keeper_config(this_keeper, keeper_ids).
KeeperView(p) ==
    /\ p.kind = "keeper_view"
    /\ Applied(KeeperConfigOf(p.in[1], p.in[2]))

\* meta.add_keeper() / meta.add_server() on a loaded topology.
AllocKeeper(p) ==
    /\ p.kind = "add_keeper"
    /\ Applied(MetaAddKeeper(p.in[1]))
AllocServer(p) ==
    /\ p.kind = "add_server"
    /\ Applied(MetaAddServer(p.in[1]))

FnNext ==
    \/ PortOf(probe)
    \/ SaveLoad(probe)
    \/ KeeperView(probe)
    \/ AllocKeeper(probe)
    \/ AllocServer(probe)

FnSpec == FnInit /\ [][FnNext]_vars

\* ---------------------------------------------------------------- claims
Persisted == Readable
Topology == FromJson(metaFile[1])
\* Invocation p runs (or has just ended) operation op, its load done.
Doing(p, op) == inv[p].op = op /\ inv[p].log # <<>>
Events(p) == Range(inv[p].log)
PortsOf(base, ids) == {Port(base, i) : i \in ids}

\* C1: along every run of add/remove operations on a topology created by
\* genesis, the saved high-water marks never decrease, every id that has
\* ever been saved as a member is at most the high-water mark, and the
\* member sets are subsets of 1..high-water mark (keepers and servers); the
\* same holds of the struct in memory after each add/remove call.
C1_StateOk ==
    /\ Persisted =>
        /\ Topology.keeper_ids \subseteq 1..Topology.max_keeper_id
        /\ everKeeperIds \subseteq 1..Topology.max_keeper_id
        /\ Topology.server_ids \subseteq 1..Topology.max_server_id
        /\ everServerIds \subseteq 1..Topology.max_server_id
    /\ \A p \in Procs :
        (inv[p].op \in Reconfigs /\ inv[p].log # <<>>) =>
            /\ inv[p].meta.keeper_ids \subseteq 1..inv[p].meta.max_keeper_id
            /\ inv[p].meta.server_ids \subseteq 1..inv[p].meta.max_server_id
            /\ inv[p].meta.max_keeper_id >= inv[p].loaded.max_keeper_id
            /\ inv[p].meta.max_server_id >= inv[p].loaded.max_server_id
C1_StepOk ==
    (Readable /\ Readable') =>
        /\ metaFile'[1].max_keeper_id >= metaFile[1].max_keeper_id
        /\ metaFile'[1].max_server_id >= metaFile[1].max_server_id
C1_HighWaterMarks == [](C1_StateOk) /\ [][C1_StepOk]_vars
C1_Witness ==
    /\ Persisted
    /\ Topology.keeper_ids # {}
    /\ Topology.max_keeper_id \notin Topology.keeper_ids
    /\ everServerIds \ Topology.server_ids # {}

NewKeeperReady(p) ==
    /\ inv[p].id \in DOMAIN keeperCfg
    /\ inv[p].id \in RaftIds(keeperCfg[inv[p].id])
    /\ Ev("start_keeper", inv[p].id) \in Events(p)
    /\ inv[p].id \in keepersUp
KeeperLists(cfg, k, id) == k \in DOMAIN cfg /\ id \in RaftIds(cfg[k])
ServerLists(cfg, s, id) ==
    s \in DOMAIN cfg /\ Port(DEFAULT_BASE_PORTS.keeper, id) \in KeeperPorts(cfg[s])
PeerToldOfNewKeeper(p) ==
    \/ \E k \in Topology.keeper_ids \ {inv[p].id} : KeeperLists(keeperCfg, k, inv[p].id)
    \/ \E s \in Topology.server_ids : ServerLists(serverCfg, s, inv[p].id)
PeerWrite(p, e) ==
    \/ e.ev = "keeper_config" /\ e.id # inv[p].id
    \/ e.ev = "clickhouse_config"
NewKeeperFirstInLog(p) ==
    LET log == inv[p].log IN
    \A i \in DOMAIN log :
        PeerWrite(p, log[i]) =>
            \E j, k \in 1..(i - 1) :
                /\ j < k
                /\ log[j] = Ev("keeper_config", inv[p].id)
                /\ log[k] = Ev("start_keeper", inv[p].id)
EarlierCutShort(p) == faulted /\ inv[p].result \in {"none", "ok"}
C3_StateOk ==
    \A p \in Procs :
        Doing(p, "add_keeper") =>
            /\ NewKeeperFirstInLog(p)
            /\ (Persisted /\ ~EarlierCutShort(p) /\ PeerToldOfNewKeeper(p))
                    => NewKeeperReady(p)
C3_StepOk ==
    \A p \in Procs :
        (Doing(p, "add_keeper") /\ inv'[p].op = "add_keeper") =>
            /\ \A k \in DOMAIN keeperCfg' \ {inv[p].id} :
                (~KeeperLists(keeperCfg, k, inv[p].id)
                    /\ KeeperLists(keeperCfg', k, inv[p].id)) => NewKeeperReady(p)
            /\ \A s \in DOMAIN serverCfg' :
                (~ServerLists(serverCfg, s, inv[p].id)
                    /\ ServerLists(serverCfg', s, inv[p].id)) => NewKeeperReady(p)
C3_NewKeeperStartedFirst == [](C3_StateOk) /\ [][C3_StepOk]_vars
C3_Witness ==
    \E p \in Procs :
        /\ Doing(p, "add_keeper")
        /\ inv[p].pc > 0
        /\ ~EarlierCutShort(p)
        /\ PeerToldOfNewKeeper(p)
        /\ NewKeeperReady(p)
        /\ \E i \in DOMAIN inv[p].log : inv[p].log[i].ev = "clickhouse_config"

\* C4: once remove_keeper(id) has killed keeper id, every keeper of the saved
\* keeper_ids has a written config, and none of these lists id as a raft
\* server: the peers were rewritten before the kill.
C4_PeersRewrittenBeforeStop ==
    \A p \in Procs :
        (Doing(p, "remove_keeper") /\ Ev("stop_keeper", inv[p].id) \in Events(p)) =>
            /\ Persisted
            /\ \A k \in Topology.keeper_ids :
                /\ k \in DOMAIN keeperCfg
                /\ inv[p].id \notin RaftIds(keeperCfg[k])
C4_Witness ==
    \E p \in Procs :
        /\ Doing(p, "remove_keeper")
        /\ inv[p].log[Len(inv[p].log)] = Ev("stop_keeper", inv[p].id)
        /\ inv[p].id \notin keepersUp
        /\ Topology.keeper_ids # {}
        /\ inv[p].id \in DOMAIN keeperCfg

\* C5: in add_keeper, add_server, remove_keeper and remove_server the first
\* call is the load and the second the save of the mutated topology: every
\* config write and every start or stop of a process comes after the save;
\* no operation loads or saves twice, and one that returns Ok has loaded once
\* and saved once.
CountOf(log, what) == Cardinality({i \in DOMAIN log : log[i].ev = what})
C5_SaveBeforeEffects ==
    \A p \in Procs :
        (inv[p].op \in Reconfigs /\ inv[p].log # <<>>) =>
            LET log == inv[p].log IN
            /\ log[1].ev = "load"
            /\ Len(log) >= 2 => log[2].ev = "save"
            /\ CountOf(log, "load") = 1
            /\ CountOf(log, "save") <= 1
            /\ inv[p].result = "ok" => CountOf(log, "save") = 1
            /\ CountOf(log, "save") = 1 => metaFile = <<ToJson(inv[p].meta)>>
C5_Witness ==
    \E p \in Procs :
        /\ inv[p].op = "remove_server"
        /\ inv[p].result = "ok"
        /\ Len(inv[p].log) >= 4
        /\ inv[p].log[Len(inv[p].log)].ev = "stop_server"

\* C6: remove_keeper(id) with id not in the saved keeper_ids (remove_server
\* with id not in server_ids) ends in an error right after its load, having
\* made no other call, and from the load to its return no file and no
\* process changes.
NotFoundRemoval(p) ==
    \/ Doing(p, "remove_keeper") /\ inv[p].id \notin inv[p].loaded.keeper_ids
    \/ Doing(p, "remove_server") /\ inv[p].id \notin inv[p].loaded.server_ids
C6_StateOk ==
    \A p \in Procs :
        NotFoundRemoval(p) =>
            /\ inv[p].pc = 0
            /\ inv[p].result = "err"
            /\ inv[p].log = <<Ev("load", 0)>>
            /\ metaFile = <<ToJson(inv[p].loaded)>>
C6_StepOk ==
    \A p \in Procs :
        (NotFoundRemoval(p) \/ NotFoundRemoval(p)') =>
            UNCHANGED <<fsVars, procVars>>
C6_NotFoundAborts == [](C6_StateOk) /\ [][C6_StepOk]_vars
C6_Witness ==
    \E p, q \in Procs :
        /\ Doing(p, "remove_keeper")
        /\ inv[p].id \in everKeeperIds \ inv[p].loaded.keeper_ids
        /\ inv[p].result = "err"
        /\ keepersUp # {}
        /\ inv[q].op = "none"

\* C7: ClickwardMetadata::remove_keeper(id) with id not a member fails and
\* leaves the four fields of the struct as they were loaded; the same for
\* remove_server.
C7_RemoveNonMember ==
    \A p \in Procs :
        NotFoundRemoval(p) =>
            /\ inv[p].result = "err"
            /\ inv[p].meta = inv[p].loaded
C7_Witness ==
    \E p \in Procs :
        /\ Doing(p, "remove_server")
        /\ inv[p].id \notin inv[p].loaded.server_ids
        /\ inv[p].loaded.server_ids # {}
        /\ inv[p].loaded.max_keeper_id > Cardinality(inv[p].loaded.keeper_ids)
        /\ inv[p].meta = inv[p].loaded

\* C8: when no invocation is running and every add/remove so far has
\* returned Ok, every keeper of the saved keeper_ids has a config whose raft
\* list is exactly keeper_ids, and every server of the saved server_ids has
\* a config whose replica list is exactly server_ids and whose keeper list
\* is exactly keeper_ids, one entry per member.
KeeperViewMatches(k, T) ==
    /\ k \in DOMAIN keeperCfg
    /\ RaftIds(keeperCfg[k]) = T.keeper_ids
    /\ Len(keeperCfg[k].raft_servers) = Cardinality(T.keeper_ids)
ServerViewMatches(s, T) ==
    /\ s \in DOMAIN serverCfg
    /\ ReplicaPorts(serverCfg[s]) =
            PortsOf(DEFAULT_BASE_PORTS.clickhouse_tcp, T.server_ids)
    /\ Len(serverCfg[s].replicas) = Cardinality(T.server_ids)
    /\ KeeperPorts(serverCfg[s]) = PortsOf(DEFAULT_BASE_PORTS.keeper, T.keeper_ids)
    /\ Len(serverCfg[s].keepers) = Cardinality(T.keeper_ids)
ViewsMatch(T) ==
    /\ \A k \in T.keeper_ids : KeeperViewMatches(k, T)
    /\ \A s \in T.server_ids : ServerViewMatches(s, T)
AllAtRest == \A p \in Procs : inv[p].pc = 0
C8_QuiescentViews == (AllAtRest /\ allOk /\ Persisted) => ViewsMatch(Topology)
C8_Witness ==
    /\ AllAtRest /\ allOk /\ Persisted
    /\ Topology.keeper_ids = {1, 2, 3, 4}
    /\ Topology.server_ids # {}
    /\ \A s \in Topology.server_ids : Len(serverCfg[s].keepers) = 4
    /\ \E p \in Procs : inv[p].op = "add_keeper" /\ inv[p].result = "ok"

\* C9: once an add/remove has saved, and when it returns Ok, the saved
\* topology is the loaded one with exactly one change: add_keeper adds
\* max_keeper_id + 1 and raises max_keeper_id by one; remove_keeper(id)
\* takes id out of keeper_ids; the server fields are as loaded.  add_server
\* and remove_server likewise, with the keeper fields as loaded.
Expected(r) ==
    CASE r.op = "add_keeper" ->
            [keeper_ids |-> r.loaded.keeper_ids \cup {r.loaded.max_keeper_id + 1},
             max_keeper_id |-> r.loaded.max_keeper_id + 1,
             server_ids |-> r.loaded.server_ids,
             max_server_id |-> r.loaded.max_server_id]
      [] r.op = "remove_keeper" ->
            [keeper_ids |-> r.loaded.keeper_ids \ {r.id},
             max_keeper_id |-> r.loaded.max_keeper_id,
             server_ids |-> r.loaded.server_ids,
             max_server_id |-> r.loaded.max_server_id]
      [] r.op = "add_server" ->
            [keeper_ids |-> r.loaded.keeper_ids,
             max_keeper_id |-> r.loaded.max_keeper_id,
             server_ids |-> r.loaded.server_ids \cup {r.loaded.max_server_id + 1},
             max_server_id |-> r.loaded.max_server_id + 1]
      [] OTHER ->
            [keeper_ids |-> r.loaded.keeper_ids,
             max_keeper_id |-> r.loaded.max_keeper_id,
             server_ids |-> r.loaded.server_ids \ {r.id},
             max_server_id |-> r.loaded.max_server_id]
C9_OneMutation ==
    \A p \in Procs :
        (inv[p].op \in Reconfigs /\ inv[p].log # <<>>) =>
            /\ inv[p].result = "ok" => Ev("save", 0) \in Events(p)
            /\ Ev("save", 0) \in Events(p) =>
                    Persisted /\ Topology = Expected(inv[p])
            /\ inv[p].op \in {"add_keeper", "add_server"} =>
                    inv[p].id = IF inv[p].op = "add_keeper"
                                THEN inv[p].loaded.max_keeper_id + 1
                                ELSE inv[p].loaded.max_server_id + 1
C9_Witness ==
    \E p \in Procs :
        /\ inv[p].op = "add_server"
        /\ inv[p].result = "ok"
        /\ inv[p].loaded.keeper_ids = {1, 3}
        /\ inv[p].loaded.max_keeper_id = 3
        /\ Topology.server_ids = {1, 2}

\* C10: generate_config(N, M) with N >= 1 and M >= 1 does not panic, and
\* when it returns Ok the saved topology is keeper_ids = 1..N,
\* max_keeper_id = N, server_ids = 1..M, max_server_id = M.
C10_Genesis ==
    \A p \in Procs :
        (inv[p].op = "generate_config" /\ inv[p].args[1] >= 1 /\ inv[p].args[2] >= 1) =>
            /\ inv[p].result # "panic"
            /\ inv[p].result = "err" => faulted
            /\ inv[p].result = "ok" =>
                /\ Persisted
                /\ Topology = [keeper_ids |-> 1..inv[p].args[1],
                               max_keeper_id |-> inv[p].args[1],
                               server_ids |-> 1..inv[p].args[2],
                               max_server_id |-> inv[p].args[2]]
C10_Witness ==
    \E p \in Procs :
        /\ inv[p].op = "generate_config"
        /\ inv[p].result = "ok"
        /\ inv[p].args = <<2, 1>>
        /\ Topology.keeper_ids = {1, 2}
        /\ Topology.max_keeper_id = 2

\* C11: generate_config(N, M) with N = 0 or M = 0 never returns Ok: it
\* panics in ClickwardMetadata::new (or fails earlier on a write), and no
\* topology is saved, neither while it runs nor when it has ended.
EmptyGenesis(p) ==
    /\ inv[p].op = "generate_config"
    /\ (inv[p].args[1] = 0 \/ inv[p].args[2] = 0)
C11_EmptyGenesisFails ==
    \A p \in Procs :
        EmptyGenesis(p) =>
            /\ inv[p].result # "ok"
            /\ inv[p].pc = 0 => inv[p].result \in {"panic", "err"}
            /\ inv[p].result = "panic" => inv[p].at = "meta_new"
            /\ ~Persisted
            /\ everKeeperIds = {} /\ everServerIds = {}
C11_Witness ==
    \E p \in Procs :
        /\ EmptyGenesis(p)
        /\ inv[p].args = <<2, 0>>
        /\ inv[p].result = "panic"
        /\ inv[p].at = "meta_new"
        /\ DOMAIN keeperCfg = {1, 2}
        /\ ~Persisted

\* C12: invocations that overlap can lose an update.  A save replaces the
\* whole file by the struct of the saving invocation, which is the struct it
\* loaded with its own mutation only; so when two invocations have loaded
\* the same file and both have saved, the saved topology is the struct of
\* one of them and lacks the mutation of the other, whose config writes and
\* process start are not undone.  (C12_Witness is such a run.)
Saved(p) == inv[p].op \in Reconfigs /\ Ev("save", 0) \in Events(p)
Saves(p) == inv'[p].log = Append(inv[p].log, Ev("save", 0))
C12_StateOk ==
    \A p, q \in Procs :
        (p # q /\ Saved(p) /\ Saved(q) /\ inv[p].loaded = inv[q].loaded) =>
            /\ Persisted
            /\ Topology \in {inv[p].meta, inv[q].meta}
C12_StepOk ==
    \A p \in Procs :
        (inv[p].op \in Reconfigs /\ Saves(p)) =>
            /\ metaFile' = <<ToJson(inv[p].meta)>>
            /\ inv[p].meta # inv[p].loaded
C12_LastWriterWins == [](C12_StateOk) /\ [][C12_StepOk]_vars
C12_Witness ==
    \E p, q \in Procs :
        /\ p # q
        /\ inv[p].op = "add_keeper" /\ inv[p].result = "ok"
        /\ inv[q].op = "add_server" /\ Saved(q)
        /\ inv[p].loaded = inv[q].loaded
        /\ Topology = inv[q].meta
        /\ inv[p].id \notin Topology.keeper_ids
        /\ Topology.max_keeper_id < inv[p].id
        /\ inv[p].id \in DOMAIN keeperCfg
        /\ inv[p].id \in keepersUp

\* C13: when an add/remove ends at the start or the stop of its node (the
\* keeper to stop is not running, a spawn fails), the topology it saved
\* stays saved: a removed id is absent from the saved set, a new id is in
\* it and is the saved high-water mark.
LifecyclePhases == {"start_keeper", "start_server", "stop_keeper", "stop_server"}
LifecycleFailed(p) ==
    /\ inv[p].op \in Reconfigs
    /\ inv[p].result \in {"err", "panic"}
    /\ inv[p].at \in LifecyclePhases
C13_NoRollback ==
    \A p \in Procs :
        LifecycleFailed(p) =>
            /\ Persisted
            /\ Topology = inv[p].meta
            /\ inv[p].op = "remove_keeper" =>
                /\ inv[p].id \in inv[p].loaded.keeper_ids
                /\ inv[p].id \notin Topology.keeper_ids
                /\ Topology.max_keeper_id = inv[p].loaded.max_keeper_id
            /\ inv[p].op = "remove_server" =>
                /\ inv[p].id \in inv[p].loaded.server_ids
                /\ inv[p].id \notin Topology.server_ids
            /\ inv[p].op = "add_keeper" =>
                /\ inv[p].id \in Topology.keeper_ids
                /\ Topology.max_keeper_id = inv[p].id
                /\ inv[p].id = inv[p].loaded.max_keeper_id + 1
            /\ inv[p].op = "add_server" =>
                /\ inv[p].id \in Topology.server_ids
                /\ Topology.max_server_id = inv[p].id
                /\ inv[p].id = inv[p].loaded.max_server_id + 1
C13_Witness ==
    \E p \in Procs :
        /\ inv[p].op = "remove_keeper"
        /\ inv[p].result = "err"
        /\ inv[p].at = "stop_keeper"
        /\ inv[p].id \notin keepersUp
        /\ inv[p].id \in inv[p].loaded.keeper_ids
        /\ inv[p].id \notin Topology.keeper_ids

\* C14: a step of an add/remove in which the start or the stop of its node
\* fails (the spawn fails; no keeper.pid to read; pkill matches no process)
\* ends the operation in an error or a panic, never in Ok.
LifecycleCallFails(p) ==
    /\ inv[p].op \in Reconfigs
    /\ inv[p].pc > 0
    /\ inv'[p] # inv[p]
    /\ \/ At(p, "start_keeper") /\ inv[p].id \notin keepersUp'
       \/ At(p, "start_server") /\ inv[p].id \notin serversUp'
       \/ At(p, "stop_keeper") /\ (inv[p].id \notin keepersUp \/ inv[p].id \in keepersUp')
       \/ At(p, "stop_server") /\ (PkillMatchesNone(inv[p].id) \/ inv[p].id \in serversUp')
C14_StepOk ==
    \A p \in Procs :
        LifecycleCallFails(p) => inv'[p].result \in {"err", "panic"}
NotStarted(p) ==
    Cardinality(inv[p].dirs.keepers \ keepersUp)
        + Cardinality(inv[p].dirs.servers \ serversUp)
C15_BestEffortDeploy ==
    \A p \in Procs :
        (inv[p].op = "deploy" /\ inv[p].pc = 0) =>
            NotStarted(p) <= (IF inv[p].result = "panic" THEN 1 ELSE 0)

\* C16: the port computed for service s and node id is exactly
\* base(s) + id, for every id (ids are u64, the allocator returns
\* max + 1 without limit); and with DEFAULT_BASE_PORTS the ports of two
\* distinct (service, id) pairs with 1 <= id <= 999 differ.
SupportedIds == 1..(PortSpacing - 1)
PortApplied == probe.kind = "port" /\ probe.out # <<>>
C16_NoCollision ==
    (PortApplied /\ probe.in[2] \in SupportedIds /\ ~probe.out[1].panic) =>
        \A s \in Services, id \in SupportedIds :
            (<<s, id>> # probe.in) =>
                Port(DEFAULT_BASE_PORTS[s], id) # probe.out[1].port
C16_BasePlusId ==
    PortApplied =>
        /\ ~probe.out[1].panic
        /\ probe.out[1].port = DEFAULT_BASE_PORTS[probe.in[1]] + probe.in[2]
C16_PortIsBasePlusId == C16_BasePlusId /\ C16_NoCollision
\* C16, ids below the spacing of the base ports: there the port is the sum.
C16_BasePlusIdSupported ==
    (PortApplied /\ probe.in[2] \in SupportedIds) =>
        /\ ~probe.out[1].panic
        /\ probe.out[1].port = DEFAULT_BASE_PORTS[probe.in[1]] + probe.in[2]

\* C17: a topology that is saved and then loaded is the topology that was
\* saved: the same keeper_ids, max_keeper_id, server_ids and max_server_id,
\* also when a high-water mark is not a member of its set.
SaveLoadApplied == probe.kind = "save_load" /\ probe.out # <<>>
C17_RoundTrip ==
    SaveLoadApplied =>
        /\ probe.out[1].keeper_ids = probe.in[1].keeper_ids
        /\ probe.out[1].max_keeper_id = probe.in[1].max_keeper_id
        /\ probe.out[1].server_ids = probe.in[1].server_ids
        /\ probe.out[1].max_server_id = probe.in[1].max_server_id
C17_Witness ==
    /\ SaveLoadApplied
    /\ probe.in[1] = [keeper_ids |-> {1, 3}, max_keeper_id |-> 3,
                      server_ids |-> {2}, max_server_id |-> 3]
    /\ probe.out[1].keeper_ids = {1, 3}
    /\ probe.out[1].max_server_id = 3

\* C18: the view written for a node is the projection of the writer's
\* topology and the node id, whatever the node's file held before (nothing,
\* the view of an older topology, a file left by a failed operation): no
\* part of the old file survives the write, and generating the view again
\* from the same topology leaves the file as it is.
LastEv(p) == inv'[p].log[Len(inv'[p].log)]
Writes(p, what) ==
    /\ Len(inv'[p].log) = Len(inv[p].log) + 1
    /\ LastEv(p).ev = what
C18_StepOk ==
    \A p \in Procs :
        LET K == inv[p].meta.keeper_ids
            S == inv[p].meta.server_ids IN
        /\ Writes(p, "keeper_config") =>
            LET k == LastEv(p).id IN
            /\ k \in DOMAIN keeperCfg'
            /\ keeperCfg'[k] = KeeperConfigOf(k, K)
            /\ WriteConfig(keeperCfg', k, KeeperConfigOf(k, K)) = keeperCfg'
        /\ Writes(p, "clickhouse_config") =>
            LET s == LastEv(p).id IN
            /\ s \in DOMAIN serverCfg'
            /\ serverCfg'[s] = ReplicaConfigOf(s, K, S)
            /\ WriteConfig(serverCfg', s, ReplicaConfigOf(s, K, S)) = serverCfg'
C18_FreshProjection == [][C18_StepOk]_vars
C18_Witness ==
    \E p \in Procs :
        /\ inv[p].op = "add_keeper"
        /\ \E k \in inv[p].loaded.keeper_ids :
            /\ Ev("keeper_config", k) \in Events(p)
            /\ k \in DOMAIN keeperCfg
            /\ keeperCfg[k] = KeeperConfigOf(k, inv[p].meta.keeper_ids)
            /\ keeperCfg[k] # KeeperConfigOf(k, inv[p].loaded.keeper_ids)
        /\ \E s \in inv[p].loaded.server_ids :
            /\ Ev("clickhouse_config", s) \in Events(p)
            /\ serverCfg[s] = ReplicaConfigOf(s, inv[p].meta.keeper_ids,
                                              inv[p].meta.server_ids)

\* C19: the keeper view of keeper k for the keeper set K has server_id k,
\* client port keeper base + k, and a raft list with one entry per member of
\* K (k itself included when it is a member) in ascending order of id, each
\* entry with the member's id, host ::1 and port raft base + id.
KeeperViewApplied == probe.kind = "keeper_view" /\ probe.out # <<>>
C19_KeeperView ==
    KeeperViewApplied =>
        LET k == probe.in[1]
            K == probe.in[2]
            v == probe.out[1]
            raft == v.raft_servers IN
        /\ v.server_id = k
        /\ v.tcp_port = DEFAULT_BASE_PORTS.keeper + k
        /\ Len(raft) = Cardinality(K)
        /\ {raft[i].id : i \in DOMAIN raft} = K
        /\ k \in K => \E i \in DOMAIN raft : raft[i].id = k
        /\ \A i, j \in DOMAIN raft : i < j => raft[i].id < raft[j].id
        /\ \A i \in DOMAIN raft :
            /\ raft[i].port = DEFAULT_BASE_PORTS.raft + raft[i].id
            /\ raft[i].hostname = "::1"
C19_Witness ==
    /\ KeeperViewApplied
    /\ probe.in = <<2, {1, 2, 3}>>
    /\ Len(probe.out[1].raft_servers) = 3
    /\ probe.out[1].raft_servers[2] = [id |-> 2, hostname |-> "::1", port |-> 21002]
    /\ probe.out[1].tcp_port = 20002

\* C20: the server view written for server s from the keeper set K and the
\* server set S has shard 1, replica s, http, tcp and interserver ports
\* base + s, a replica list with one entry per member of S in ascending
\* order with port tcp base + id, and a keeper list with one entry per
\* member of K in ascending order with port keeper base + id; an operation
\* writes such a view for every member of S, and no server file of another
\* id is created or changed.
PortList(list, base, ids) ==
    /\ Len(list) = Cardinality(ids)
    /\ {list[i].port - base : i \in DOMAIN list} = ids
    /\ \A i, j \in DOMAIN list : i < j => list[i].port < list[j].port
ServerViewOk(v, s, K, S) ==
    /\ v.shard = 1
    /\ v.replica = s
    /\ v.http_port = DEFAULT_BASE_PORTS.clickhouse_http + s
    /\ v.tcp_port = DEFAULT_BASE_PORTS.clickhouse_tcp + s
    /\ v.interserver_http_port = DEFAULT_BASE_PORTS.clickhouse_interserver_http + s
    /\ PortList(v.replicas, DEFAULT_BASE_PORTS.clickhouse_tcp, S)
    /\ PortList(v.keepers, DEFAULT_BASE_PORTS.keeper, K)
ServersWritten(p) ==
    {e.id : e \in {x \in Events(p) : x.ev = "clickhouse_config"}}
C20_StateOk ==
    \A p \in Procs :
        /\ \A s \in ServersWritten(p) :
            /\ s \in inv[p].meta.server_ids
            /\ s \in DOMAIN serverCfg
            /\ ServerViewOk(serverCfg[s], s, inv[p].meta.keeper_ids,
                            inv[p].meta.server_ids)
        /\ (inv[p].op \in Reconfigs \cup {"generate_config"} /\ inv[p].result = "ok")
                => ServersWritten(p) = inv[p].meta.server_ids
C20_StepOk ==
    \A s \in DOMAIN serverCfg' :
        (s \notin DOMAIN serverCfg \/ serverCfg'[s] # serverCfg[s]) =>
            \E p \in Procs :
                /\ Writes(p, "clickhouse_config")
                /\ LastEv(p).id = s
                /\ s \in inv[p].meta.server_ids
C20_ServerView == [](C20_StateOk) /\ [][C20_StepOk]_vars
C20_Witness ==
    \E p \in Procs :
        /\ inv[p].op = "add_server"
        /\ inv[p].result = "ok"
        /\ inv[p].meta.server_ids = {1, 2}
        /\ inv[p].meta.keeper_ids = {1, 2}
        /\ ServersWritten(p) = {1, 2}
        /\ Len(serverCfg[2].replicas) = 2
        /\ Len(serverCfg[2].keepers) = 2
        /\ serverCfg[1].keepers[2].port = 20002

\* C21: once add_server has started the new server, every server of the
\* new server list (the new one included) has a written config whose
\* replica list is the new server list, so lists the new server; and at the
\* step that starts the new server its own config is already written and
\* lists it.
TcpPorts(ids) == PortsOf(DEFAULT_BASE_PORTS.clickhouse_tcp, ids)
C21_StateOk ==
    \A p \in Procs :
        (Doing(p, "add_server") /\ Ev("start_server", inv[p].id) \in Events(p)) =>
            \A s \in inv[p].loaded.server_ids \cup {inv[p].id} :
                /\ s \in DOMAIN serverCfg
                /\ Ev("clickhouse_config", s) \in Events(p)
                /\ ReplicaPorts(serverCfg[s]) = TcpPorts(inv[p].meta.server_ids)
                /\ Port(DEFAULT_BASE_PORTS.clickhouse_tcp, inv[p].id)
                        \in ReplicaPorts(serverCfg[s])
C21_StepOk ==
    \A p \in Procs :
        (inv[p].op = "add_server" /\ inv[p].id \in serversUp' \ serversUp) =>
            /\ inv[p].id \in DOMAIN serverCfg
            /\ serverCfg[inv[p].id] =
                    ReplicaConfigOf(inv[p].id, inv[p].meta.keeper_ids,
                                    inv[p].meta.server_ids)
            /\ Port(DEFAULT_BASE_PORTS.clickhouse_tcp, inv[p].id)
                    \in ReplicaPorts(serverCfg[inv[p].id])
C21_ServersRewrittenBeforeStart == [](C21_StateOk) /\ [][C21_StepOk]_vars
C21_Witness ==
    \E p \in Procs :
        /\ Doing(p, "add_server")
        /\ inv[p].log[Len(inv[p].log)] = Ev("start_server", inv[p].id)
        /\ inv[p].id \in serversUp
        /\ inv[p].loaded.server_ids # {}
        /\ inv[p].id \in DOMAIN serverCfg

\* C22: once remove_server(id) has run its stop of server id, every
\* remaining server of the saved server list has a config written by this
\* operation whose replica list is the remaining servers, so does not list
\* id; the stop comes after these writes, and no step of the operation
\* writes, creates or deletes the config file of server id.
C22_StateOk ==
    \A p \in Procs :
        Doing(p, "remove_server") =>
            /\ Ev("clickhouse_config", inv[p].id) \notin Events(p)
            /\ Ev("stop_server", inv[p].id) \in Events(p) =>
                \A s \in inv[p].loaded.server_ids \ {inv[p].id} :
                    /\ s \in DOMAIN serverCfg
                    /\ Ev("clickhouse_config", s) \in Events(p)
                    /\ ReplicaPorts(serverCfg[s]) = TcpPorts(inv[p].meta.server_ids)
                    /\ Port(DEFAULT_BASE_PORTS.clickhouse_tcp, inv[p].id)
                            \notin ReplicaPorts(serverCfg[s])
C22_StepOk ==
    \A p \in Procs :
        Doing(p, "remove_server") =>
            LET id == inv[p].id IN
            /\ (id \in DOMAIN serverCfg) = (id \in DOMAIN serverCfg')
            /\ id \in DOMAIN serverCfg => serverCfg'[id] = serverCfg[id]
            /\ id \in serversUp \ serversUp' =>
                \A s \in inv[p].meta.server_ids :
                    /\ s \in DOMAIN serverCfg
                    /\ serverCfg[s] = ReplicaConfigOf(s, inv[p].meta.keeper_ids,
                                                      inv[p].meta.server_ids)
C22_RemainingRewrittenBeforeStop == [](C22_StateOk) /\ [][C22_StepOk]_vars
C22_Witness ==
    \E p \in Procs :
        /\ Doing(p, "remove_server")
        /\ inv[p].log[Len(inv[p].log)] = Ev("stop_server", inv[p].id)
        /\ inv[p].id \notin serversUp
        /\ inv[p].meta.server_ids # {}
        /\ inv[p].id \in DOMAIN serverCfg
        /\ serverCfg[inv[p].id] =
                ReplicaConfigOf(inv[p].id, inv[p].loaded.keeper_ids,
                                inv[p].loaded.server_ids)

\* C23: a step of add_keeper starts no process but the new keeper, a step
\* of remove_keeper(id) stops no process but keeper id, a step of add_server
\* starts no process but the new server, a step of remove_server(id) stops
\* no process but server id, and no step of these operations starts or
\* stops any other keeper or server; an operation that returns Ok has run
\* its one start or stop.
OnlyRunning(p) ==
    inv[p].pc > 0 /\ \A q \in Procs \ {p} : inv[q].pc = 0
OwnNode(p, op) == IF inv[p].op = op THEN {inv[p].id} ELSE {}
C23_StepOk ==
    \A p \in Procs :
        (OnlyRunning(p) /\ inv[p].op \in Reconfigs) =>
            /\ keepersUp' \ keepersUp \subseteq OwnNode(p, "add_keeper")
            /\ keepersUp \ keepersUp' \subseteq OwnNode(p, "remove_keeper")
            /\ serversUp' \ serversUp \subseteq OwnNode(p, "add_server")
            /\ serversUp \ serversUp' \subseteq OwnNode(p, "remove_server")
C23_StateOk ==
    \A p \in Procs :
        (inv[p].op \in Reconfigs /\ inv[p].result = "ok") =>
            LET starts == {e \in Events(p) : e.ev \in {"start_keeper", "start_server"}}
                stops == {e \in Events(p) : e.ev \in {"stop_keeper", "stop_server"}} IN
            CASE inv[p].op = "add_keeper" ->
                    starts = {Ev("start_keeper", inv[p].id)} /\ stops = {}
              [] inv[p].op = "add_server" ->
                    starts = {Ev("start_server", inv[p].id)} /\ stops = {}
              [] inv[p].op = "remove_keeper" ->
                    stops = {Ev("stop_keeper", inv[p].id)} /\ starts = {}
              [] OTHER ->
                    stops = {Ev("stop_server", inv[p].id)} /\ starts = {}
C23_OwnNodeOnly == [](C23_StateOk) /\ [][C23_StepOk]_vars

\* C24: a step of an add/remove operation at which the load or the save
\* fails ends the operation in an error, writes no config file, starts and
\* stops no process and leaves the metadata file as it was, readable when
\* it was readable; an operation ended this way has done nothing but, at
\* most, its load.
StoreCallFails(p) ==
    /\ inv[p].op \in Reconfigs \/ Idle(p)
    /\ inv'[p].op \in Reconfigs
    /\ inv'[p] # inv[p]
    /\ inv'[p].result \in {"err", "panic"}
    /\ \/ inv'[p].at = "load" /\ ~Readable
       \/ inv'[p].at = "save"
C24_StepOk ==
    \A p \in Procs :
        StoreCallFails(p) =>
            /\ inv'[p].result = "err"
            /\ keeperCfg' = keeperCfg
            /\ serverCfg' = serverCfg
            /\ keepersUp' = keepersUp
            /\ serversUp' = serversUp
            /\ metaFile' = metaFile
            /\ Readable => Readable'
C24_StateOk ==
    \A p \in Procs :
        (inv[p].op \in Reconfigs /\ inv[p].result \in {"err", "panic"}
            /\ inv[p].at \in {"load", "save"}) =>
                Events(p) \subseteq {Ev("load", 0)}
C24_StoreFailureAborts == [](C24_StateOk) /\ [][C24_StepOk]_vars

\* C25: after an add/remove operation has saved the topology and then ended
\* in an error or a panic, an add_keeper or remove_keeper that returns Ok
\* leaves the topology it saved as the persisted one, and every keeper of
\* the persisted keeper_ids and every server of the persisted server_ids
\* with the config projected from that topology.
Recovering(p) ==
    /\ cutShort # {}
    /\ inv[p].op \in {"add_keeper", "remove_keeper"}
    /\ inv[p].result = "ok"
C25_Recoverable ==
    \A p \in Procs :
        Recovering(p) =>
            /\ Persisted
            /\ Topology = inv[p].meta
            /\ ViewsMatch(Topology)
            /\ \A k \in Topology.keeper_ids :
                keeperCfg[k] = KeeperConfigOf(k, Topology.keeper_ids)
            /\ \A s \in Topology.server_ids :
                serverCfg[s] = ReplicaConfigOf(s, Topology.keeper_ids,
                                               Topology.server_ids)
C25_Witness ==
    \E p \in Procs :
        /\ Recovering(p)
        /\ \E c \in cutShort :
            /\ c.op = "add_keeper"
            /\ c.id \in Topology.keeper_ids
            /\ c.id \notin keepersUp
            /\ keeperCfg[c.id] = KeeperConfigOf(c.id, Topology.keeper_ids)
        /\ Topology.server_ids # {}

\* C26: a remove_keeper(id) or remove_server(id) that is invoked again after
\* an earlier invocation saved the removal of id and then ended in an error
\* or a panic does not end in an error when it finds id gone from the
\* topology it loaded.
Retried(p) ==
    /\ inv[p].op \in {"remove_keeper", "remove_server"}
    /\ inv[p].log # <<>>
    /\ [op |-> inv[p].op, id |-> inv[p].id] \in cutShort
    /\ inv[p].id \notin (IF inv[p].op = "remove_keeper"
                         THEN inv[p].loaded.keeper_ids
                         ELSE inv[p].loaded.server_ids)
C26_RetriedRemovalSucceeds ==
    \A p \in Procs : Retried(p) => inv[p].result \notin {"err", "panic"}

\* C27 (as stated): whatever the interleaving of the invocations, two
\* add_keeper invocations never hold the same new id, and no step lowers the
\* saved max_keeper_id.
C27_DistinctIds ==
    \A p, q \in Procs :
        (p # q /\ Doing(p, "add_keeper") /\ Doing(q, "add_keeper")) =>
            inv[p].id # inv[q].id
C27_MaxKept ==
    (Readable /\ Readable') =>
        metaFile'[1].max_keeper_id >= metaFile[1].max_keeper_id
C27_NoDoubleAllocation == [](C27_DistinctIds) /\ [][C27_MaxKept]_vars

\* C27 (amended): an add_keeper hands out the max_keeper_id it loaded plus
\* one, which is no id of the topology it loaded; no save writes a
\* max_keeper_id below the one its invocation loaded; and a save made while
\* the file still holds what its invocation loaded does not lower the saved
\* max_keeper_id, and writes as the new keeper an id above every id of the
\* topology it replaces.
C27_LocalState ==
    \A p \in Procs :
        Doing(p, "add_keeper") =>
            /\ inv[p].id = inv[p].loaded.max_keeper_id + 1
            /\ inv[p].id \notin inv[p].loaded.keeper_ids
            /\ inv[p].meta.max_keeper_id = inv[p].id
C27_LocalStep ==
    \A p \in Procs :
        (inv[p].op \in Reconfigs /\ Saves(p)) =>
            /\ metaFile'[1].max_keeper_id >= inv[p].loaded.max_keeper_id
            /\ metaFile = <<ToJson(inv[p].loaded)>> =>
                /\ metaFile'[1].max_keeper_id >= metaFile[1].max_keeper_id
                /\ inv[p].op = "add_keeper" =>
                    /\ inv[p].id > metaFile[1].max_keeper_id
                    /\ \A k \in Topology.keeper_ids : inv[p].id > k
C27_AllocationPerLoad == [](C27_LocalState) /\ [][C27_LocalStep]_vars
C27_Witness ==
    \E p, q \in Procs :
        /\ p # q
        /\ Doing(p, "add_keeper") /\ Saved(p)
        /\ Doing(q, "remove_keeper") /\ ~Saved(q) /\ inv[q].pc > 0
        /\ inv[q].loaded = inv[p].loaded
        /\ Topology = inv[p].meta
        /\ Topology.max_keeper_id = inv[p].id

\* C28 (as stated): in every state, once remove_keeper(id) has stopped
\* keeper id, no server of the saved server_ids has a written config that
\* lists keeper id.
KeeperPort(id) == Port(DEFAULT_BASE_PORTS.keeper, id)
ListedByServers(id) ==
    {s \in Topology.server_ids \cap DOMAIN serverCfg :
        KeeperPort(id) \in KeeperPorts(serverCfg[s])}
StoppedKeeper(p) ==
    /\ Doing(p, "remove_keeper")
    /\ Ev("stop_keeper", inv[p].id) \in Events(p)
C28_NoStoppedKeeperListed ==
    \A p \in Procs : StoppedKeeper(p) => ListedByServers(inv[p].id) = {}

\* C28 (amended): once remove_keeper(id) has returned Ok, keeper id is
\* stopped and every server of the saved server_ids has a written config
\* that does not list it; the server configs are rewritten after the stop,
\* so until then (and for good when the operation ends early at the stop or
\* after it) they may list the stopped keeper.
C28_State ==
    \A p \in Procs :
        (StoppedKeeper(p) /\ inv[p].result = "ok") =>
            /\ inv[p].id \notin keepersUp
            /\ Topology.server_ids \subseteq DOMAIN serverCfg
            /\ ListedByServers(inv[p].id) = {}
C28_Step ==
    \A p \in Procs :
        (Doing(p, "remove_keeper") /\ Writes(p, "clickhouse_config")) =>
            /\ Ev("stop_keeper", inv[p].id) \in Events(p)
            /\ KeeperPort(inv[p].id) \notin KeeperPorts(serverCfg'[LastEv(p).id])
C28_StoppedKeeperUnlistedAtOk == [](C28_State) /\ [][C28_Step]_vars
C28_Witness ==
    \E p \in Procs :
        /\ StoppedKeeper(p) /\ inv[p].result = "ok"
        /\ inv[p].id \in inv[p].loaded.keeper_ids
        /\ inv[p].id \notin keepersUp
        /\ Topology.server_ids # {}
        /\ \A s \in Topology.server_ids : Len(serverCfg[s].keepers) > 0

\* C29: a deploy that returns Ok on a deployment with a saved topology has
\* started a keeper for id k exactly when k is in the saved keeper_ids and a
\* server for id s exactly when s is in the saved server_ids; it has started
\* no node that was removed.
DeployStarted(p) == inv[p].op = "deploy" /\ inv[p].result = "ok" /\ Persisted
C29_DeployStartsTopology ==
    \A p \in Procs :
        DeployStarted(p) =>
            /\ inv[p].dirs.keepers = Topology.keeper_ids
            /\ inv[p].dirs.servers = Topology.server_ids
            /\ inv[p].dirs.keepers \cap (everKeeperIds \ Topology.keeper_ids) = {}
            /\ inv[p].dirs.servers \cap (everServerIds \ Topology.server_ids) = {}

\* C30 (as stated): after an allocation the ports of the live (service, id)
\* pairs are pairwise distinct, and the id handed out is below the spacing
\* of the base ports.
KeeperServices == {"keeper", "raft"}
ServerServices ==
    {"clickhouse_tcp", "clickhouse_http", "clickhouse_interserver_http"}
LivePairs(T) ==
    (KeeperServices \X T.keeper_ids) \cup (ServerServices \X T.server_ids)
PairPort(q) == Port(DEFAULT_BASE_PORTS[q[1]], q[2])
PortsDistinct(T) ==
    \A a, b \in LivePairs(T) : a # b => PairPort(a) # PairPort(b)
Allocated ==
    probe.kind \in {"add_keeper", "add_server"} /\ probe.out # <<>>
NewId ==
    IF probe.kind = "add_keeper" THEN probe.out[1].max_keeper_id
    ELSE probe.out[1].max_server_id
LiveIds(T) == T.keeper_ids \cup T.server_ids
C30_PortsDistinct ==
    Allocated => (PortsDistinct(probe.out[1]) /\ NewId < PortSpacing)

\* C30 (amended): the ports of the live (service, id) pairs are pairwise
\* distinct as long as every live id is at most the spacing of the base
\* ports; the allocation does not keep ids there: it never fails and hands
\* out the high-water mark plus one whatever its value.
C30_PortsDistinctInRange ==
    Allocated =>
        LET before == probe.in[1]
            after == probe.out[1] IN
        /\ (\A i \in LiveIds(after) : i <= PortSpacing) => PortsDistinct(after)
        /\ NewId = (IF probe.kind = "add_keeper" THEN before.max_keeper_id
                    ELSE before.max_server_id) + 1
        /\ NewId \in LiveIds(after)
C30_Witness ==
    /\ Allocated
    /\ probe.kind = "add_keeper"
    /\ probe.in[1].keeper_ids = {1, PortSpacing - 1}
    /\ NewId = PortSpacing
    /\ probe.out[1].keeper_ids = {1, PortSpacing - 1, PortSpacing}
    /\ PortsDistinct(probe.out[1])

====
